---- MODULE Spec2Model ----
(***************************************************************************)
(* A model of parse_gcode_for_time_and_tools (src/app.py): the single-pass *)
(* modal G-code interpreter that attributes cut time and cut distance to   *)
(* named groups.  A line of the file is a TLA+ string; the regular         *)
(* expressions of the source are modelled character by character, and a    *)
(* Python float is modelled as an exact rational <<numerator, denominator>>*)
(* in lowest terms.                                                        *)
(***************************************************************************)
EXTENDS Integers, Sequences, FiniteSets, TLC

VARIABLES
    pc,                 \* "loop": in the for loop; "returned"; "raised": an exception left the function
    results,            \* the list of emitted group records
    current_group_info, \* <<>> for None, <<record>> for the open group
    pos,                \* [X, Y, Z] of rationals
    rpm,                \* rational
    feed,               \* rational
    g95_active,         \* BOOLEAN
    motion_mode,        \* "G0" or "G1"
    out,                \* the value the call returned (meaningful once pc = "returned")
    n,                  \* number of lines the loop has consumed
    line,               \* the line the loop consumed last ("" before the first)
    opened,             \* history: for each GROUP_BEGIN line consumed, in order, the name captured and
                        \* whether a coordinate line was then charged to the group in motion mode G1
    text,               \* the lines of the file, when the file is fixed beforehand (SpecText)
    call,               \* 1 for the first call on text, 2 for the second
    first               \* how the first call on text ended: <<pc, out>>, or <<>> before it ended

vars == <<pc, results, current_group_info, pos, rpm, feed, g95_active,
          motion_mode, out, n, line, opened, text, call, first>>

-----------------------------------------------------------------------------
(* Characters and substrings *)

Ch(l, i) == SubSeq(l, i, i)

\* the character class \d
Digits == {"0", "1", "2", "3", "4", "5", "6", "7", "8", "9"}

\* the character class [-\d.]
NumChars == Digits \cup {"-", "."}

\* the character class \s
Spaces == {" ", "\t"}

StartsAt(l, i, w) ==
    /\ i >= 1
    /\ i + Len(w) - 1 <= Len(l)
    /\ SubSeq(l, i, i + Len(w) - 1) = w

\* Python's  w in l  and  re.compile(w).search(l)  for a literal w
Contains(l, w) == \E i \in 1..Len(l) : StartsAt(l, i, w)

SetMin(S) == CHOOSE x \in S : \A y \in S : x <= y
SetMax(S) == CHOOSE x \in S : \A y \in S : y <= x

\* the last position of the longest run of characters of class cls starting
\* at i (i - 1 when the run is empty): a greedy  [class]*
RunEnd(l, i, cls) ==
    SetMin({j \in i..(Len(l) + 1) : j = Len(l) + 1 \/ Ch(l, j) \notin cls}) - 1

\* the positions >= i holding character c
PosOf(l, i, c) == {j \in i..Len(l) : Ch(l, j) = c}

-----------------------------------------------------------------------------
(* Python floats: a finite float is modelled as an exact rational           *)
(* <<numerator, denominator>> in lowest terms with a positive denominator, *)
(* inf as <<1, 0>>, -inf as <<-1, 0>> and nan as <<0, 0>>.  Rounding is    *)
(* not modelled, nor is the OverflowError of ** on a finite float.         *)

RECURSIVE Gcd(_, _)
Gcd(a, b) == IF b = 0 THEN a ELSE Gcd(b, a % b)

Abs(a) == IF a < 0 THEN -a ELSE a

Sign(a) == IF a < 0 THEN -1 ELSE IF a = 0 THEN 0 ELSE 1

\* a/b in lowest terms; with b = 0 the infinity of the sign of a, or nan
Q(a, b) ==
    IF b = 0 THEN <<Sign(a), 0>>
    ELSE LET g == Gcd(Abs(a), Abs(b))
         IN  <<(Sign(b) * a) \div g, Abs(b) \div g>>

QInt(k) == <<k, 1>>
QZero == QInt(0)
Inf == <<1, 0>>
NaN == <<0, 0>>
IsFinite(p) == p[2] # 0

\* sums of finite floats are formed over the least common denominator
QAdd(p, q) ==
    IF IsFinite(p) /\ IsFinite(q)
    THEN LET g == Gcd(p[2], q[2])
         IN  Q(p[1] * (q[2] \div g) + q[1] * (p[2] \div g), (p[2] \div g) * q[2])
    ELSE IF p = NaN \/ q = NaN THEN NaN
    ELSE IF IsFinite(q) THEN p
    ELSE IF IsFinite(p) THEN q
    ELSE IF p = q THEN p ELSE NaN
QNeg(p) == <<-p[1], p[2]>>
QSub(p, q) == QAdd(p, QNeg(q))
QMul(p, q) == Q(p[1] * q[1], p[2] * q[2])
\* 1/q for q # 0
QInv(q) == IF q[1] < 0 THEN <<-q[2], -q[1]>> ELSE <<q[2], q[1]>>
QDiv(p, q) == QMul(p, QInv(q))
\* p > 0 and p >= 0, both false of nan
QPos(p) == p[1] > 0
QNonNeg(p) == p[1] > 0 \/ (p[1] = 0 /\ p[2] # 0)

\* the integer square root (floor)
ISqrt(k) == SetMax({r \in 0..k : r * r <= k})

\* math.sqrt of a p that is not negative: exact when p is the square of a
\* rational, rounded down to a multiple of 1/denominator otherwise
QSqrt(p) == IF IsFinite(p) THEN Q(ISqrt(p[1] * p[2]), p[2]) ELSE p

DigitVal(c) == CHOOSE k \in 0..9 : Ch("0123456789", k + 1) = c

RECURSIVE DigitsVal(_)
DigitsVal(s) ==
    IF s = "" THEN 0
    ELSE 10 * DigitsVal(SubSeq(s, 1, Len(s) - 1)) + DigitVal(Ch(s, Len(s)))

RECURSIVE Pow10(_)
Pow10(k) == IF k = 0 THEN 1 ELSE 10 * Pow10(k - 1)

\* whether float(s) accepts s, a non-empty string over [-\d.]: an optional
\* leading minus sign, then digits with at most one point and at least one
\* digit
FloatOk(s) ==
    LET body == IF StartsAt(s, 1, "-") THEN SubSeq(s, 2, Len(s)) ELSE s
        dots == PosOf(body, 1, ".")
    IN  /\ PosOf(body, 1, "-") = {}
        /\ Cardinality(dots) <= 1
        /\ \E i \in 1..Len(body) : Ch(body, i) \in Digits

\* the number of decimal digits from which on every integer is beyond the
\* largest finite float (about 1.8e308)
FloatOverflowDigits == 310

\* float(s) for an s that FloatOk accepts: a number whose integer part has
\* FloatOverflowDigits digits or more, the first not 0, gives inf
FloatVal(s) ==
    LET neg == StartsAt(s, 1, "-")
        body == IF neg THEN SubSeq(s, 2, Len(s)) ELSE s
        dots == PosOf(body, 1, ".")
        d == IF dots = {} THEN Len(body) + 1 ELSE SetMin(dots)
        ip == SubSeq(body, 1, d - 1)
        fp == SubSeq(body, d + 1, Len(body))
        mag == IF Len(ip) >= FloatOverflowDigits /\ Ch(ip, 1) # "0"
               THEN Inf
               ELSE Q(DigitsVal(ip) * Pow10(Len(fp)) + DigitsVal(fp),
                      Pow10(Len(fp)))
    IN  IF neg THEN QNeg(mag) ELSE mag

\* float(s): <<value>>, or <<>> when float raises ValueError
Float(s) == IF FloatOk(s) THEN <<FloatVal(s)>> ELSE <<>>

-----------------------------------------------------------------------------
(* The regular expressions.  A search gives <<>> for no match and          *)
(* <<captured group>> for the leftmost match.                              *)

\* GROUP_BEGIN\([^,]*,\s*"([^"]*)"  anchored at i: the captured name
GroupBeginAt(l, i) ==
    IF ~StartsAt(l, i, "GROUP_BEGIN(") THEN <<>>
    ELSE LET commas == PosOf(l, i + 12, ",")
         IN  IF commas = {} THEN <<>>
             ELSE LET q == RunEnd(l, SetMin(commas) + 1, Spaces) + 1
                      closing == PosOf(l, q + 1, "\"")
                  IN  IF q <= Len(l) /\ Ch(l, q) = "\"" /\ closing # {}
                      THEN <<SubSeq(l, q + 1, SetMin(closing) - 1)>>
                      ELSE <<>>

group_begin_re(l) ==
    LET hits == {i \in 1..Len(l) : GroupBeginAt(l, i) # <<>>}
    IN  IF hits = {} THEN <<>> ELSE GroupBeginAt(l, SetMin(hits))

\* GROUP_END
group_end_re(l) == Contains(l, "GROUP_END")

\* T="([^"]*)"  anchored at i
ToolAt(l, i) ==
    IF ~StartsAt(l, i, "T=\"") THEN <<>>
    ELSE LET closing == PosOf(l, i + 3, "\"")
         IN  IF closing = {} THEN <<>>
             ELSE <<SubSeq(l, i + 3, SetMin(closing) - 1)>>

tool_re(l) ==
    LET hits == {i \in 1..Len(l) : ToolAt(l, i) # <<>>}
    IN  IF hits = {} THEN <<>> ELSE ToolAt(l, SetMin(hits))

\* whether letter c followed by at least one character of class cls stands
\* at i
LetterRunAt(l, i, c, cls) ==
    /\ i < Len(l)
    /\ Ch(l, i) = c
    /\ Ch(l, i + 1) \in cls

\* F([-\d.]+)
feed_re(l) ==
    LET hits == {i \in 1..Len(l) : LetterRunAt(l, i, "F", NumChars)}
    IN  IF hits = {} THEN <<>>
        ELSE LET i == SetMin(hits)
             IN  <<SubSeq(l, i + 1, RunEnd(l, i + 1, NumChars))>>

\* S(\d+)
rpm_re(l) ==
    LET hits == {i \in 1..Len(l) : LetterRunAt(l, i, "S", Digits)}
    IN  IF hits = {} THEN <<>>
        ELSE LET i == SetMin(hits)
             IN  <<SubSeq(l, i + 1, RunEnd(l, i + 1, Digits))>>

\* G0?([01])  anchored at i: the optional 0 is tried first (greedy), then
\* the empty alternative
GCodeAt(l, i) ==
    IF ~StartsAt(l, i, "G") THEN <<>>
    ELSE IF StartsAt(l, i + 1, "0") /\ i + 2 <= Len(l) /\ Ch(l, i + 2) \in {"0", "1"}
         THEN <<Ch(l, i + 2)>>
    ELSE IF i + 1 <= Len(l) /\ Ch(l, i + 1) \in {"0", "1"}
         THEN <<Ch(l, i + 1)>>
    ELSE <<>>

\* g_code_re matched at the start of the line only (match for search)
g_code_re_match(l) == GCodeAt(l, 1)

g_code_re(l) ==
    LET hits == {i \in 1..Len(l) : GCodeAt(l, i) # <<>>}
    IN  IF hits = {} THEN <<>> ELSE GCodeAt(l, SetMin(hits))

\* coord_re.findall(line) from position i on: the <<axis, payload>> pairs
\* of ([XYZ])([-\d.]+), left to right, without overlap
RECURSIVE CoordsFrom(_, _)
CoordsFrom(l, i) ==
    LET hits == {j \in i..Len(l) : \E a \in {"X", "Y", "Z"} :
                                     LetterRunAt(l, j, a, NumChars)}
    IN  IF hits = {} THEN <<>>
        ELSE LET j == SetMin(hits)
                 e == RunEnd(l, j + 1, NumChars)
             IN  <<<<Ch(l, j), SubSeq(l, j + 1, e)>>>> \o CoordsFrom(l, e + 1)

coord_re(l) == CoordsFrom(l, 1)

-----------------------------------------------------------------------------
(* The inputs *)

\* the longest file read line by line under Spec
MaxLines == 4

\* the longest file of TextLines under SpecText
MaxTextLen == 3

\* the longest file read line by line under SpecTokens
MaxTokenLines == 4

RECURSIVE Nines(_)
Nines(k) ==
    IF k = 0 THEN ""
    ELSE IF k % 10 = 0 THEN "9999999999" \o Nines(k - 10)
    ELSE "9" \o Nines(k - 1)

\* a number beyond the largest finite float
Huge == Nines(FloatOverflowDigits)

\* the lines a file is made of under Spec
Lines ==
    { "GROUP_BEGIN(x,\"Roughing\")", "GROUP_BEGIN(1, \"B\")", "GROUP_END",
      "G1 F500 X100", "G0 X0", "F100", "G1 X10", "X20",
      "G95", "G94", "S1000", "S0", "F0.1", "F-100", "F0",
      "G1 X3 Y4", "Z12",
      "F-", "X.", "X1.2.3", "F--5",
      "G1 F" \o Huge \o " X" \o Huge, "S" \o Huge }

\* the lines of the enumerated files of SpecText
TextLines ==
    { "GROUP_BEGIN(1, \"B\")", "GROUP_END", "G1 X10", "X20", "G0 X0",
      "F100", "F-100", "G95", "S0", "F-" }

\* the lines a file is made of under SpecTokens: group markers alone, with
\* tokens and with each other, tools, spindle speeds, feeds, moves, G codes
\* and feed-mode directives
TokenLines ==
    { "GROUP_BEGIN(1, \"A\")", "GROUP_END",
      "GROUP_BEGIN(2, \"B\") T=\"T1\" S500 F100 G1 X10",
      "GROUP_END T=\"T9\" S900 F200 G95 G1 X50",
      "GROUP_BEGIN(3, \"C\") GROUP_END", "GROUP_END GROUP_BEGIN(3, \"C\")",
      "T=\"T1\"", "T=\"T2\"", "S500", "S900", "F100", "F200", "F100.0",
      "G1 X10", "X20", "G0 X0",
      "G00", "G01", "G1 G0", "G2", "G17", "G54", "G02",
      "G95", "G94", "G95 G94", "G94 G95", "X. F-" }

RECURSIVE SeqsUpTo(_, _)
SeqsUpTo(S, k) ==
    IF k = 0 THEN {<<>>}
    ELSE LET shorter == SeqsUpTo(S, k - 1)
         IN  shorter \cup {Append(t, x) : t \in shorter, x \in S}

\* the files of the spec's testable properties
RoughingText ==
    <<"GROUP_BEGIN(x,\"Roughing\")", "G1 F500 X100", "G0 X0", "GROUP_END">>

\* RoughingText with the tokens of each line in another order
RoughingTextReordered ==
    <<"GROUP_BEGIN(x,\"Roughing\")", "X100 F500 G1", "X0 G0", "GROUP_END">>

ModalText == <<"GROUP_BEGIN(1, \"B\")", "F100", "G1 X10", "X20">>

ToggleText ==
    <<"GROUP_BEGIN(1, \"B\")", "G95", "S1000", "F0.1", "G1 X10", "G94", "X20">>

ClosedThenOpenedText ==
    <<"GROUP_BEGIN(x,\"Roughing\")", "G1 X10", "GROUP_END",
      "GROUP_BEGIN(1, \"B\")", "G1 X20">>

OpenedOverOpenText ==
    <<"GROUP_BEGIN(x,\"Roughing\")", "G1 X10", "GROUP_BEGIN(1, \"B\")", "G1 X20">>

\* a move per revolution with the spindle stopped
StoppedSpindleText == <<"GROUP_BEGIN(1, \"B\")", "G95", "S0", "F100", "G1 X10">>

\* the feed mode and the spindle speed set on the lines of the moves
SameLineText ==
    <<"GROUP_BEGIN(1, \"B\")", "F0.1", "G1 X10 G95 S1000", "G94 X20">>

Scenarios ==
    { RoughingText, RoughingTextReordered, ModalText, ToggleText,
      ClosedThenOpenedText, OpenedOverOpenText, StoppedSpindleText,
      SameLineText }

Texts == Scenarios \cup SeqsUpTo(TextLines, MaxTextLen)

\* every line of every file
AllLines == Lines \cup TextLines \cup TokenLines \cup UNION {{t[i] : i \in 1..Len(t)} : t \in Scenarios}

\* what the regular expressions and the substring tests find on line l
Matches(l) ==
    [begin |-> group_begin_re(l), ends |-> group_end_re(l),
     g_match |-> g_code_re(l), g95 |-> Contains(l, "G95"),
     g94 |-> Contains(l, "G94"), rpm_match |-> rpm_re(l),
     feed_match |-> feed_re(l), tool_match |-> tool_re(l),
     coords_found |-> coord_re(l)]

\* Matches, computed once for each line
MatchTable == [l \in AllLines |-> Matches(l)]

-----------------------------------------------------------------------------
(* The steps of the loop body *)

\* the record a GROUP_BEGIN line opens
NewGroup(name) ==
    [Herramienta |-> "N/A", Grupo |-> name, Tiempo |-> QZero,
     Distancia |-> QZero, Avances |-> {}, RPMs |-> {}]

\* GroupResults with GROUP_END emitting whether or not a group is open
GroupResultsUnguarded(res, cur, begin, ends) ==
    LET res1 == IF begin # <<>> /\ cur # <<>> THEN Append(res, cur[1]) ELSE res
        cur1 == IF begin # <<>> THEN <<NewGroup(begin[1])>> ELSE cur
    IN  IF ends
        THEN Append(res1, IF cur1 # <<>> THEN cur1[1] ELSE NewGroup("N/A"))
        ELSE res1

\* GroupResults with a GROUP_BEGIN line discarding the group it finds open
GroupResultsDroppingOpen(res, cur, begin, ends) ==
    LET cur1 == IF begin # <<>> THEN <<NewGroup(begin[1])>> ELSE cur
    IN  IF ends /\ cur1 # <<>> THEN Append(res, cur1[1]) ELSE res

\* GroupResults with a record emitted over the last one instead of after it
GroupResultsOverLast(res, cur, begin, ends) ==
    LET put(r, g) == IF r = <<>> THEN <<g>> ELSE [r EXCEPT ![Len(r)] = g]
        res1 == IF begin # <<>> /\ cur # <<>> THEN put(res, cur[1]) ELSE res
        cur1 == IF begin # <<>> THEN <<NewGroup(begin[1])>> ELSE cur
    IN  IF ends /\ cur1 # <<>> THEN put(res1, cur1[1]) ELSE res1

\* results after the group handling of a line: cur is the group open before
\* the line, begin the match of group_begin_re, ends that of group_end_re
GroupResults(res, cur, begin, ends) ==
    LET res1 == IF begin # <<>> /\ cur # <<>> THEN Append(res, cur[1]) ELSE res
        cur1 == IF begin # <<>> THEN <<NewGroup(begin[1])>> ELSE cur
    IN  IF ends /\ cur1 # <<>> THEN Append(res1, cur1[1]) ELSE res1

\* GroupCurrent with GROUP_END leaving the group it emits open
GroupCurrentStaysOpen(cur, begin, ends) ==
    IF begin # <<>> THEN <<NewGroup(begin[1])>> ELSE cur

\* GroupCurrent with GROUP_END handled before GROUP_BEGIN
GroupCurrentEndFirst(cur, begin, ends) ==
    IF begin # <<>> THEN <<NewGroup(begin[1])>>
    ELSE IF ends THEN <<>> ELSE cur

\* current_group_info after the group handling of a line
GroupCurrent(cur, begin, ends) ==
    LET cur1 == IF begin # <<>> THEN <<NewGroup(begin[1])>> ELSE cur
    IN  IF ends /\ cur1 # <<>> THEN <<>> ELSE cur1

\* motion_mode after the line
MotionMode(l, mm) ==
    LET g_match == MatchTable[l].g_match
    IN  IF g_match # <<>> THEN "G" \o g_match[1] ELSE mm

\* FeedMode with G94 looked for first, then G95
FeedModeG95Last(l, g95) ==
    LET a == IF MatchTable[l].g94 THEN FALSE ELSE g95
    IN  IF MatchTable[l].g95 THEN TRUE ELSE a

\* g95_active after the line: G95 is looked for first, then G94
FeedMode(l, g95) ==
    LET a == IF MatchTable[l].g95 THEN TRUE ELSE g95
    IN  IF MatchTable[l].g94 THEN FALSE ELSE a

\* rpm after the line (float accepts every run of digits)
Rpm(l, r) ==
    LET rpm_match == MatchTable[l].rpm_match
    IN  IF rpm_match # <<>> THEN Float(rpm_match[1])[1] ELSE r

\* int(x): <<x truncated towards zero>>, or <<>> when int raises
\* (OverflowError on an infinity, ValueError on nan)
IntOf(x) ==
    IF ~IsFinite(x) THEN <<>>
    ELSE IF x[1] >= 0 THEN <<x[1] \div x[2]>> ELSE <<-((-x[1]) \div x[2])>>

\* the group's RPMs after the line: <<RPMs>>, or <<>> when int raises
RpmsSeen(l, seen) ==
    IF MatchTable[l].rpm_match = <<>> THEN <<seen>>
    ELSE LET k == IntOf(Rpm(l, QZero))
         IN  IF k = <<>> THEN <<>> ELSE <<seen \cup {k[1]}>>

\* Feed with the feed lasting for its own line only
FeedNotModal(l, f) ==
    LET feed_match == MatchTable[l].feed_match
    IN  IF feed_match # <<>> THEN Float(feed_match[1]) ELSE <<QZero>>

\* feed after the line: <<feed>>, or <<>> when float raises
Feed(l, f) ==
    LET feed_match == MatchTable[l].feed_match
    IN  IF feed_match # <<>> THEN Float(feed_match[1]) ELSE <<f>>

\* FeedsSeen keeping the last feed only
FeedsSeenLast(l, seen) ==
    LET feed_match == MatchTable[l].feed_match
    IN  IF feed_match # <<>> THEN {Float(feed_match[1])[1]} ELSE seen

\* the group's Avances after the line (when float did not raise)
FeedsSeen(l, seen) ==
    LET feed_match == MatchTable[l].feed_match
    IN  IF feed_match # <<>> THEN seen \cup {Float(feed_match[1])[1]} ELSE seen

\* Tool keeping the first tool of the group
ToolFirst(l, t) ==
    LET tool_match == MatchTable[l].tool_match
    IN  IF tool_match # <<>> /\ t = "N/A" THEN tool_match[1] ELSE t

\* the group's Herramienta after the line
Tool(l, t) ==
    LET tool_match == MatchTable[l].tool_match
    IN  IF tool_match # <<>> THEN tool_match[1] ELSE t

\* target_pos: p with the axes of coords overwritten in order; <<>> when a
\* float raises
RECURSIVE Target(_, _)
Target(p, coords) ==
    IF coords = <<>> THEN <<p>>
    ELSE LET v == Float(Head(coords)[2])
         IN  IF v = <<>> THEN <<>>
             ELSE Target([p EXCEPT ![Head(coords)[1]] = v[1]], Tail(coords))

QSq(x) == QMul(x, x)

\* Distance measured from the origin instead of from p
DistanceFromOrigin(p, t) ==
    QSqrt(QAdd(QAdd(QSq(t.X), QSq(t.Y)), QSq(t.Z)))

\* the Euclidean distance from p to t
Distance(p, t) ==
    QSqrt(QAdd(QAdd(QSq(QSub(t.X, p.X)), QSq(QSub(t.Y, p.Y))),
               QSq(QSub(t.Z, p.Z))))

\* TimeForMove with the feed always taken per minute
TimeForMovePerMinute(distance, f, r, g95) ==
    IF QPos(f) THEN QMul(QDiv(distance, f), QInt(60)) ELSE QZero

\* time_for_move of a charged move
TimeForMove(distance, f, r, g95) ==
    IF g95 /\ QPos(r) /\ QPos(f)
        THEN QMul(QDiv(distance, QMul(f, r)), QInt(60))
    ELSE IF ~g95 /\ QPos(f)
        THEN QMul(QDiv(distance, f), QInt(60))
    ELSE QZero

\* Charge without the test of the motion mode
ChargeAnyMode(g, mm, distance, f, r, g95) ==
    IF QPos(distance)
    THEN [g EXCEPT !.Tiempo = QAdd(@, TimeForMove(distance, f, r, g95)),
                   !.Distancia = QAdd(@, distance)]
    ELSE g

\* Charge with the distance added only when a time could be computed
ChargeWhenTimed(g, mm, distance, f, r, g95) ==
    IF mm = "G1" /\ QPos(distance) /\ QPos(TimeForMove(distance, f, r, g95))
    THEN [g EXCEPT !.Tiempo = QAdd(@, TimeForMove(distance, f, r, g95)),
                   !.Distancia = QAdd(@, distance)]
    ELSE g

\* the open group after a move of the given distance
Charge(g, mm, distance, f, r, g95) ==
    IF mm = "G1" /\ QPos(distance)
    THEN [g EXCEPT !.Tiempo = QAdd(@, TimeForMove(distance, f, r, g95)),
                   !.Distancia = QAdd(@, distance)]
    ELSE g

\* the position after a line whose coordinates gave target
NewPos(p, target) == target
-----------------------------------------------------------------------------
(* The call *)

\* the locals of a fresh call
InitialPos == [X |-> QZero, Y |-> QZero, Z |-> QZero]
InitialRpm == QInt(1)
InitialFeed == QZero
InitialG95 == FALSE
InitialMotionMode == "G0"

Locals ==
    /\ results = <<>>
    /\ current_group_info = <<>>
    /\ pos = InitialPos
    /\ rpm = InitialRpm
    /\ feed = InitialFeed
    /\ g95_active = InitialG95
    /\ motion_mode = InitialMotionMode

Init ==
    /\ Locals
    /\ pc = "loop"
    /\ out = <<>>
    /\ n = 0
    /\ line = ""
    /\ opened = <<>>
    /\ text = <<>>
    /\ call = 1
    /\ first = <<>>

InitText ==
    /\ Locals
    /\ pc = "loop"
    /\ out = <<>>
    /\ n = 0
    /\ line = ""
    /\ opened = <<>>
    /\ text \in Texts
    /\ call = 1
    /\ first = <<>>

\* an exception leaves the function: nothing is returned
Raise ==
    /\ pc' = "raised"
    /\ UNCHANGED <<results, current_group_info, pos, rpm, feed, g95_active,
                   motion_mode, out>>

\* one iteration of the for loop, on line l
LoopBody(l) ==
    LET begin == MatchTable[l].begin
        ends == MatchTable[l].ends
        res == GroupResults(results, current_group_info, begin, ends)
        cur == GroupCurrent(current_group_info, begin, ends)
        op == IF begin # <<>>
              THEN Append(opened, [name |-> begin[1], linear |-> FALSE])
              ELSE opened
    IN  IF cur = <<>>
        THEN \* continue
             /\ opened' = op
             /\ results' = res
             /\ current_group_info' = cur
             /\ UNCHANGED <<pc, pos, rpm, feed, g95_active, motion_mode, out>>
        ELSE LET f == Feed(l, feed)
                    coords == MatchTable[l].coords_found
                    target == Target(pos, coords)
                    rpms == RpmsSeen(l, cur[1].RPMs)
                IN  IF rpms = <<>> \/ f = <<>> \/ target = <<>>
                    THEN Raise /\ opened' = op
                    ELSE LET mm == MotionMode(l, motion_mode)
                             g95 == FeedMode(l, g95_active)
                             r == Rpm(l, rpm)
                             g1 == [cur[1] EXCEPT
                                      !.RPMs = rpms[1],
                                      !.Avances = FeedsSeen(l, @),
                                      !.Herramienta = Tool(l, @)]
                             g2 == IF coords # <<>>
                                   THEN Charge(g1, mm, Distance(pos, target[1]),
                                               f[1], r, g95)
                                   ELSE g1
                         IN  /\ opened' = IF coords # <<>> /\ mm = "G1"
                                           THEN [op EXCEPT ![Len(op)].linear = TRUE]
                                           ELSE op
                             /\ results' = res
                             /\ current_group_info' = <<g2>>
                             /\ motion_mode' = mm
                             /\ g95_active' = g95
                             /\ rpm' = r
                             /\ feed' = f[1]
                             /\ pos' = IF coords # <<>>
                                       THEN NewPos(pos, target[1]) ELSE pos
                             /\ UNCHANGED <<pc, out>>

\* after the loop: a group still open is emitted and results is returned
Finish ==
    /\ results' = IF current_group_info # <<>>
                  THEN Append(results, current_group_info[1]) ELSE results
    /\ out' = results'
    /\ pc' = "returned"
    /\ UNCHANGED <<current_group_info, pos, rpm, feed, g95_active, motion_mode,
                   n, line, opened>>

\* Spec: the file is read line by line and may end after any line
ReadLine(l) ==
    /\ pc = "loop"
    /\ n < MaxLines
    /\ LoopBody(l)
    /\ n' = n + 1
    /\ line' = l
    /\ UNCHANGED <<text, call, first>>

EndOfInput ==
    /\ pc = "loop"
    /\ Finish
    /\ UNCHANGED <<text, call, first>>

Next == (\E l \in Lines : ReadLine(l)) \/ EndOfInput

Spec == Init /\ [][Next]_vars

\* SpecTokens: as Spec, the lines being those of TokenLines
ReadTokenLine(l) ==
    /\ pc = "loop"
    /\ n < MaxTokenLines
    /\ LoopBody(l)
    /\ n' = n + 1
    /\ line' = l
    /\ UNCHANGED <<text, call, first>>

NextTokens == (\E l \in TokenLines : ReadTokenLine(l)) \/ EndOfInput

SpecTokens == Init /\ [][NextTokens]_vars

\* SpecText: the file is text, parsed twice
NextLine ==
    /\ pc = "loop"
    /\ n < Len(text)
    /\ LoopBody(text[n + 1])
    /\ n' = n + 1
    /\ line' = text[n + 1]
    /\ UNCHANGED <<text, call, first>>

EndOfText ==
    /\ pc = "loop"
    /\ n = Len(text)
    /\ Finish
    /\ UNCHANGED <<text, call, first>>

\* CallAgain with the machine state kept from one call to the next
CallAgainKeepingState ==
    /\ pc \in {"returned", "raised"}
    /\ call = 1
    /\ first' = <<pc, out>>
    /\ call' = 2
    /\ results' = <<>>
    /\ current_group_info' = <<>>
    /\ pc' = "loop"
    /\ out' = <<>>
    /\ n' = 0
    /\ line' = ""
    /\ opened' = <<>>
    /\ UNCHANGED <<text, pos, rpm, feed, g95_active, motion_mode>>

\* the caller keeps what the first call gave and calls again on the same text
CallAgain ==
    /\ pc \in {"returned", "raised"}
    /\ call = 1
    /\ first' = <<pc, out>>
    /\ call' = 2
    /\ results' = <<>>
    /\ current_group_info' = <<>>
    /\ pos' = InitialPos
    /\ rpm' = InitialRpm
    /\ feed' = InitialFeed
    /\ g95_active' = InitialG95
    /\ motion_mode' = InitialMotionMode
    /\ pc' = "loop"
    /\ out' = <<>>
    /\ n' = 0
    /\ line' = ""
    /\ opened' = <<>>
    /\ UNCHANGED text

NextText == NextLine \/ EndOfText \/ CallAgain

SpecText == InitText /\ [][NextText]_vars

-----------------------------------------------------------------------------
(* Properties *)

\* the group records: the emitted ones and the open one
Groups ==
    {results[k] : k \in 1..Len(results)}
        \cup {current_group_info[k] : k \in 1..Len(current_group_info)}

\* the value the last token of axis a on line l gives that axis (old when
\* the line has no token of the axis)
AxisAfter(l, a, old) ==
    LET coords == MatchTable[l].coords_found
        idx == {i \in 1..Len(coords) : coords[i][1] = a}
    IN  IF idx = {} THEN old ELSE Float(coords[SetMax(idx)][2])[1]

\* the accumulators the group open after a line started the line with: those
\* of a fresh group on a GROUP_BEGIN line, those of the open group otherwise
TiempoBefore(l) ==
    IF MatchTable[l].begin # <<>> THEN QZero ELSE current_group_info[1].Tiempo
DistanciaBefore(l) ==
    IF MatchTable[l].begin # <<>> THEN QZero ELSE current_group_info[1].Distancia

\* a step of the loop that consumed a line (line') without raising
LineDone == pc = "loop" /\ pc' = "loop" /\ n' = n + 1

\* C1: parse never raises on malformed input: no line, whatever the numeric
\* payload of its X/Y/Z or F token, brings the call to an error state.
C1_NeverRaises == pc # "raised"

\* C2: once the call has ended, every group opened by a GROUP_BEGIN line has
\* been emitted exactly once, in the order the groups were opened.
C2_EveryGroupEmitted ==
    pc \in {"returned", "raised"} =>
        [k \in 1..Len(results) |-> results[k].Grupo]
            = [k \in 1..Len(opened) |-> opened[k].name]

\* C3: as long as the input has held no group-open marker nothing is emitted,
\* the call does not fail, and what it returns is the empty sequence.
C3_NoMarkerEmptyOutput ==
    opened = <<>> =>
        /\ results = <<>>
        /\ current_group_info = <<>>
        /\ pc # "raised"
        /\ pc = "returned" => out = <<>>

\* a file of three lines or more, the last a move, with no group-open marker
\* has been parsed
C3_Witness ==
    /\ pc = "returned"
    /\ opened = <<>>
    /\ n >= 3
    /\ MatchTable[line].coords_found # <<>>
    /\ out = <<>>

\* C4: every group record, open or emitted, has a cut time >= 0 and a cut
\* distance >= 0, whatever the feed, the spindle speed and the feed mode.
\* An infinite distance charged at an infinite feed gives the time inf / inf,
\* which is nan, and nan >= 0 is false.
C4_NonNegative ==
    \A g \in Groups : QNonNeg(g.Tiempo) /\ QNonNeg(g.Distancia)

\* C5, a step: a coordinate line charged in motion mode G0 leaves the cut
\* time and the cut distance of the open group as they were and sets the
\* position to the target.
C5_RapidStep ==
    ( /\ LineDone
      /\ current_group_info' # <<>>
      /\ MatchTable[line'].coords_found # <<>>
      /\ motion_mode' = "G0" )
    => /\ current_group_info'[1].Tiempo = TiempoBefore(line')
       /\ current_group_info'[1].Distancia = DistanciaBefore(line')
       /\ \A a \in {"X", "Y", "Z"} : pos'[a] = AxisAfter(line', a, pos[a])

\* C5, the groups: an emitted group to which no coordinate line was charged
\* in motion mode G1 has cut time 0 and cut distance 0.
C5_RapidOnlyGroups ==
    \A k \in 1..Len(results) :
        (k <= Len(opened) /\ ~opened[k].linear) =>
            results[k].Tiempo = QZero /\ results[k].Distancia = QZero

\* C5: RAPID moves add nothing to the open group's cut time or cut distance
\* but move the position; a group with only RAPID moves is emitted with cut
\* time 0 and cut distance 0.
C5_RapidMovesNotCharged == [][C5_RapidStep]_vars /\ []C5_RapidOnlyGroups

\* a group was emitted with nothing charged after a rapid move inside it
C5_Witness ==
    /\ Len(opened) = 1
    /\ ~opened[1].linear
    /\ Len(results) = 1
    /\ pos # InitialPos
    /\ results[1].Distancia = QZero

\* the time the charging rule gives a move of length d at feed f and spindle
\* speed r: 60 d / (f r) per revolution, 60 d / f per minute, 0 otherwise
RuleTime(d, f, r, perRev) ==
    IF perRev /\ r[1] > 0 /\ f[1] > 0
        THEN Q(60 * d[1] * f[2] * r[2], d[2] * f[1] * r[1])
    ELSE IF ~perRev /\ f[1] > 0
        THEN Q(60 * d[1] * f[2], d[2] * f[1])
    ELSE QZero

\* a record with no tool and the given name, time, distance and feeds
Record(name, t, d, feeds, rpms) ==
    [Herramienta |-> "N/A", Grupo |-> name, Tiempo |-> t, Distancia |-> d,
     Avances |-> feeds, RPMs |-> rpms]

\* a line that carries coordinates and no F, S, motion-code, feed-mode or
\* group token
PlainMove(l) ==
    LET m == MatchTable[l]
    IN  /\ m.coords_found # <<>>
        /\ m.feed_match = <<>> /\ m.rpm_match = <<>> /\ m.g_match = <<>>
        /\ ~m.g95 /\ ~m.g94
        /\ m.begin = <<>> /\ ~m.ends

\* C6, a step: a plain move in an open group is charged with the feed, the
\* spindle speed, the feed mode and the motion mode earlier lines left, and
\* leaves them as they were.
C6_ModalStep ==
    (LineDone /\ current_group_info # <<>> /\ PlainMove(line')) =>
        LET d == Distance(pos, pos')
            charged == motion_mode = "G1" /\ QPos(d)
        IN  /\ current_group_info'[1].Tiempo
                = QAdd(current_group_info[1].Tiempo,
                       IF charged THEN RuleTime(d, feed, rpm, g95_active)
                       ELSE QZero)
            /\ current_group_info'[1].Distancia
                = QAdd(current_group_info[1].Distancia,
                       IF charged THEN d ELSE QZero)
            /\ UNCHANGED <<feed, rpm, g95_active, motion_mode>>

\* C6, the example: F100, G1 X10, X20 from X = 0 charges 6 s, then 6 s more.
C6_Example ==
    text = ModalText =>
        /\ (pc = "loop" /\ n = 3) => current_group_info[1].Tiempo = QInt(6)
        /\ (pc = "loop" /\ n = 4) =>
              current_group_info[1] = Record("B", QInt(12), QInt(20), {QInt(100)}, {})

\* C6: the feed, the spindle speed, the feed mode and the motion mode set by
\* a line stay in force on the following lines until a line sets them anew:
\* every plain move is charged with the values earlier lines left, and after
\* F100, G1 X10 the line X20 is charged as a second cut at feed 100.
C6_ModalPersistence == [][C6_ModalStep]_vars /\ []C6_Example

\* X20 has just been charged at the feed that F100 set two lines before
C6_Witness ==
    /\ text = ModalText
    /\ pc = "loop"
    /\ n = 4
    /\ line = "X20"
    /\ feed = QInt(100)
    /\ current_group_info[1].Tiempo = QInt(12)

\* C7, a step: a charged move (motion mode G1, distance > 0) adds to the
\* open group's time exactly what the charging rule gives for the feed, the
\* spindle speed and the feed mode in force.
C7_ChargedStep ==
    ( /\ LineDone
      /\ current_group_info' # <<>>
      /\ MatchTable[line'].coords_found # <<>>
      /\ motion_mode' = "G1"
      /\ QPos(Distance(pos, pos')) )
    => current_group_info'[1].Tiempo
         = QAdd(TiempoBefore(line'),
                RuleTime(Distance(pos, pos'), feed', rpm', g95_active'))

\* C7, the example: 10 mm at F0.1 take 6 s per revolution at S1000 and
\* 6000 s per minute.
C7_Example ==
    text = ToggleText =>
        /\ (pc = "loop" /\ n \in {5, 6}) => current_group_info[1].Tiempo = QInt(6)
        /\ (pc = "loop" /\ n = 7) =>
              /\ current_group_info[1].Tiempo = QInt(6006)
              /\ current_group_info[1].Distancia = QInt(20)

\* C7: a charged move adds distance / (feed * rpm) * 60 in per-revolution
\* mode when feed > 0 and rpm > 0, distance / feed * 60 in per-minute mode
\* when feed > 0, and 0 otherwise.
C7_TimeOfChargedMove == [][C7_ChargedStep]_vars /\ []C7_Example

\* 10 mm have been charged per revolution (6 s) and 10 mm per minute (6000 s)
C7_Witness ==
    /\ text = ToggleText
    /\ pc = "loop"
    /\ n = 7
    /\ ~g95_active
    /\ current_group_info[1].Tiempo = QInt(6006)

\* C8, a step: a line with GROUP_END, and a line with GROUP_BEGIN and no
\* other token, leave the position, the feed, the spindle speed, the feed
\* mode and the motion mode as they were.
C8_BoundaryStep ==
    LET m == MatchTable[line']
    IN  ( /\ LineDone
          /\ \/ m.ends
             \/ /\ m.begin # <<>>
                /\ m.coords_found = <<>> /\ m.feed_match = <<>>
                /\ m.rpm_match = <<>> /\ m.g_match = <<>> /\ ~m.g95 /\ ~m.g94 )
        => UNCHANGED <<pos, feed, rpm, g95_active, motion_mode>>

\* C8, the example: the first group ends at X = 10, and G1 X20 in the second
\* charges 10 mm to it.
C8_Example ==
    (text \in {ClosedThenOpenedText, OpenedOverOpenText} /\ pc = "returned") =>
        /\ Len(out) = 2
        /\ out[1].Grupo = "Roughing" /\ out[1].Distancia = QInt(10)
        /\ out[2].Grupo = "B" /\ out[2].Distancia = QInt(10)

\* C8: neither GROUP_END nor GROUP_BEGIN resets the position, the feed, the
\* spindle speed, the feed mode or the motion mode: the first move of a
\* group is measured from where the last move before it ended.
C8_StateSurvivesBoundaries == [][C8_BoundaryStep]_vars /\ []C8_Example

\* the second group was charged the 10 mm from where the first group ended
C8_Witness ==
    /\ text = OpenedOverOpenText
    /\ pc = "returned"
    /\ pos.X = QInt(20)
    /\ out[2].Distancia = QInt(10)

\* C9, a step: the move of a line is charged with the motion mode, the feed
\* mode, the spindle speed and the feed the line itself leaves.
C9_OwnTokensStep ==
    ( /\ LineDone
      /\ current_group_info' # <<>>
      /\ MatchTable[line'].coords_found # <<>> )
    => LET d == Distance(pos, pos')
           charged == motion_mode' = "G1" /\ QPos(d)
       IN  /\ current_group_info'[1].Tiempo
               = QAdd(TiempoBefore(line'),
                      IF charged THEN RuleTime(d, feed', rpm', g95_active')
                      ELSE QZero)
           /\ current_group_info'[1].Distancia
               = QAdd(DistanciaBefore(line'), IF charged THEN d ELSE QZero)

\* C9, the example: one record, Roughing, no tool, 100 mm, 12 s, feeds
\* {500}, no spindle speed, wherever the tokens stand on their lines; and a
\* feed mode and a spindle speed that follow the coordinate on its line are
\* those the move is charged with.
C9_Example ==
    /\ (text \in {RoughingText, RoughingTextReordered} /\ pc = "returned") =>
          out = <<Record("Roughing", QInt(12), QInt(100), {QInt(500)}, {})>>
    /\ (text = SameLineText /\ pc = "loop" /\ n = 3) =>
          current_group_info[1].Tiempo = QInt(6)
    /\ (text = SameLineText /\ pc = "returned") =>
          out = <<Record("B", QInt(6006), QInt(20), {Q(1, 10)}, {1000})>>

\* C9: all the motion, feed-mode, spindle and feed tokens of a line take
\* effect before the move of that line is charged, wherever they stand on
\* the line.
C9_TokensBeforeMove == [][C9_OwnTokensStep]_vars /\ []C9_Example

\* a move whose motion code and feed follow its coordinate was charged 12 s
C9_Witness ==
    /\ text = RoughingTextReordered
    /\ pc = "returned"
    /\ Len(out) = 1
    /\ out[1].Tiempo = QInt(12)

\* C10, a fresh start: a call starts at position (0, 0, 0), feed 0, spindle
\* speed 1, per-minute mode, RAPID, with no open group and nothing emitted.
C10_FreshStart ==
    (pc = "loop" /\ n = 0) =>
        /\ pos = [X |-> <<0, 1>>, Y |-> <<0, 1>>, Z |-> <<0, 1>>]
        /\ feed = <<0, 1>>
        /\ rpm = <<1, 1>>
        /\ ~g95_active
        /\ motion_mode = "G0"
        /\ current_group_info = <<>>
        /\ results = <<>>

NoTokens(l) ==
    LET m == MatchTable[l]
    IN  /\ m.coords_found = <<>> /\ m.feed_match = <<>> /\ m.rpm_match = <<>>
        /\ m.tool_match = <<>> /\ m.g_match = <<>> /\ ~m.g95 /\ ~m.g94

\* the group a GROUP_BEGIN line (line') has just opened: the open group, or
\* the last emitted one when the line carries GROUP_END too
JustOpened ==
    IF current_group_info' # <<>> THEN current_group_info'[1]
    ELSE results'[Len(results')]

\* C11, a step: a GROUP_BEGIN line read while a group is open appends that
\* group, as it stands, to the output, ahead of anything else; the group it
\* opens has the name of the marker and is new: time 0, distance 0, no
\* feeds, no spindle speeds and tool N/A when the line has no other token.
C11_BeginStep ==
    (LineDone /\ current_group_info # <<>> /\ MatchTable[line'].begin # <<>>)
    => /\ Len(results') > Len(results)
       /\ SubSeq(results', 1, Len(results) + 1)
            = Append(results, current_group_info[1])
       /\ JustOpened.Grupo = MatchTable[line'].begin[1]
       /\ NoTokens(line') =>
            JustOpened = Record(JustOpened.Grupo, QZero, QZero, {}, {})

\* C11, the groups: while the file is read, the groups opened are those
\* emitted and at most one more, the open one.
C11_OneOpen ==
    pc = "loop" =>
        /\ Len(current_group_info) <= 1
        /\ Len(opened) = Len(results) + Len(current_group_info)

\* C11: a GROUP_BEGIN line met while a group is open emits that group with
\* what it has accumulated and then starts a new group with time 0, distance
\* 0, empty feed and spindle-speed sets and tool N/A; never is more than one
\* group open.
C11_BeginOverOpenGroup == [][C11_BeginStep]_vars /\ []C11_OneOpen

\* a GROUP_BEGIN line has just closed a group that had a tool, a feed, a
\* spindle speed and a cut distance, and opened a new one
C11_Witness ==
    /\ pc = "loop"
    /\ Len(results) = 1
    /\ results[1].Herramienta = "T1"
    /\ results[1].Avances = {QInt(100)}
    /\ QPos(results[1].Distancia)
    /\ line = "GROUP_BEGIN(1, \"A\")"
    /\ current_group_info = <<Record("A", QZero, QZero, {}, {})>>

\* the target of a coordinate line l read at position p
TargetOf(l, p) == [a \in {"X", "Y", "Z"} |-> AxisAfter(l, a, p[a])]

\* C12, a step: a coordinate line read in an open group adds the distance
\* from the position to the target to the group's distance when the motion
\* mode is G1 and that distance is > 0, which changes a finite distance, and
\* leaves time and distance as they were otherwise; when the feed is <= 0, or
\* the mode is per revolution and the spindle speed <= 0, the distance is
\* added and the time is left as it was; the position becomes the target.
C12_MoveStep ==
    ( /\ LineDone
      /\ current_group_info' # <<>>
      /\ MatchTable[line'].coords_found # <<>> )
    => LET d == Distance(pos, TargetOf(line', pos))
           charged == motion_mode' = "G1" /\ QPos(d)
           untimed == ~QPos(feed') \/ (g95_active' /\ ~QPos(rpm'))
           g == current_group_info'[1]
       IN  /\ pos' = TargetOf(line', pos)
           /\ charged =>
                /\ g.Distancia = QAdd(DistanciaBefore(line'), d)
                /\ IsFinite(DistanciaBefore(line'))
                     => g.Distancia # DistanciaBefore(line')
                /\ untimed => g.Tiempo = TiempoBefore(line')
           /\ ~charged =>
                /\ g.Distancia = DistanciaBefore(line')
                /\ g.Tiempo = TiempoBefore(line')

\* C12, an example: the move from (0, 0, 0) to (3, 4, 0) is charged 5 mm
\* and the move from there to (3, 4, 12) 12 mm more, and no time while the
\* feed is 0.
C12_Example ==
    /\ ( /\ pc = "loop" /\ n = 2 /\ line = "G1 X3 Y4"
         /\ current_group_info # <<>> )
       => /\ current_group_info[1].Distancia = QInt(5)
          /\ current_group_info[1].Tiempo = QZero
    /\ ( /\ pc = "loop" /\ n = 3 /\ line = "Z12"
         /\ pos = [X |-> QInt(3), Y |-> QInt(4), Z |-> QInt(12)] )
       => /\ current_group_info[1].Distancia = QInt(17)
          /\ current_group_info[1].Tiempo = QZero

\* C12: in an open group a coordinate line changes the group's time and
\* distance if and only if the motion mode is G1 and the distance from the
\* position to the target is > 0; the whole Euclidean distance is then added
\* to the cut distance even when no time can be computed (feed <= 0, or per
\* revolution with the spindle stopped); the position becomes the target in
\* every case.
C12_DistanceCharged == [][C12_MoveStep]_vars /\ []C12_Example

\* a move has just been charged per revolution with the spindle stopped: a
\* distance and no time
C12_Witness ==
    /\ pc = "loop"
    /\ current_group_info # <<>>
    /\ MatchTable[line].coords_found # <<>>
    /\ motion_mode = "G1" /\ g95_active /\ rpm = QZero /\ QPos(feed)
    /\ current_group_info[1].Distancia = QInt(100)
    /\ current_group_info[1].Tiempo = QZero
    /\ pos.X = QInt(100)

\* C13, a step: a line without a group-open marker, read when every group
\* opened so far has been emitted (none is open), does not raise and leaves
\* the position, the feed, the spindle speed, the feed mode, the motion mode
\* and the output as they were, and no group open.
C13_InertStep ==
    ( /\ pc = "loop" /\ n' = n + 1
      /\ Len(opened) = Len(results)
      /\ MatchTable[line'].begin = <<>> )
    => /\ pc' = "loop"
       /\ current_group_info' = <<>>
       /\ UNCHANGED <<pos, feed, rpm, g95_active, motion_mode, results, out>>

\* C13: a line read while no group is open (before the first group, or
\* between a GROUP_END and the next GROUP_BEGIN) that carries no group-open
\* marker leaves the whole machine state and the output unchanged, whatever
\* coordinate, F, S, T or G tokens it carries.
C13_InertOutsideGroups == [][C13_InertStep]_vars

\* a rapid move to X0 was read after the only group had been closed at X10
\* in motion mode G1, and the machine is as that group left it
C13_Witness ==
    /\ pc = "loop"
    /\ Len(results) = 1
    /\ current_group_info = <<>>
    /\ line = "G0 X0"
    /\ pos.X = QInt(10)
    /\ motion_mode = "G1"

\* C14: the position, the feed and the motion mode keep evolving between
\* groups: a line read between a GROUP_END and the next GROUP_BEGIN sets the
\* position to the target of its coordinates, the feed to its F value and the
\* motion mode to its motion code, so that the first move of the next group
\* is measured from the last position commanded between the groups and
\* charged with the feed and the motion mode last commanded there.
C14_EvolvesBetweenGroups ==
    [][ ( /\ pc = "loop" /\ n' = n + 1
          /\ opened # <<>> /\ Len(opened) = Len(results)
          /\ MatchTable[line'].begin = <<>>
          /\ Feed(line', feed) # <<>>
          /\ Target(pos, MatchTable[line'].coords_found) # <<>> )
        => /\ pos' = TargetOf(line', pos)
           /\ feed' = Feed(line', feed)[1]
           /\ motion_mode' = MotionMode(line', motion_mode) ]_vars

\* the F value and the S value of line l, each as a set of one element or
\* none
FValues(l) ==
    LET feed_match == MatchTable[l].feed_match
    IN  IF feed_match # <<>> THEN {Float(feed_match[1])[1]} ELSE {}
SValues(l) ==
    LET rpm_match == MatchTable[l].rpm_match
    IN  IF rpm_match # <<>> THEN {DigitsVal(rpm_match[1])} ELSE {}

\* the feeds, the spindle speeds and the tool the group open after a line
\* started the line with: those of a new group on a GROUP_BEGIN line
AvancesBefore(l) ==
    IF MatchTable[l].begin # <<>> THEN {} ELSE current_group_info[1].Avances
RPMsBefore(l) ==
    IF MatchTable[l].begin # <<>> THEN {} ELSE current_group_info[1].RPMs
HerramientaBefore(l) ==
    IF MatchTable[l].begin # <<>> THEN "N/A"
    ELSE current_group_info[1].Herramienta

\* C15, a step: a line that leaves a group open leaves it with the feeds it
\* started the line with (none on a GROUP_BEGIN line) and the line's F
\* value, and with the spindle speeds it started with and the line's S
\* value; a line that closes the open group emits it as it was.
C15_SeenStep ==
    /\ (LineDone /\ current_group_info' # <<>>) =>
         /\ current_group_info'[1].Avances
              = AvancesBefore(line') \cup FValues(line')
         /\ current_group_info'[1].RPMs
              = RPMsBefore(line') \cup SValues(line')
    /\ ( /\ LineDone /\ current_group_info # <<>>
         /\ MatchTable[line'].ends /\ MatchTable[line'].begin = <<>> )
       => results' = Append(results, current_group_info[1])

\* C15, the values: F100 and F100.0 are one feed, 100, and S500 is the
\* spindle speed 500.
C15_Values ==
    (pc = "loop" /\ current_group_info # <<>>) =>
        /\ line \in {"F100", "F100.0"} =>
             /\ QInt(100) \in current_group_info[1].Avances
             /\ QInt(200) \in current_group_info[1].Avances
                  => Cardinality(current_group_info[1].Avances) = 2
        /\ line = "S500" => 500 \in current_group_info[1].RPMs

\* C15: the feeds and the spindle speeds of a group are exactly the F and S
\* values of the lines read while it was open: both sets start empty when
\* the group opens, a value seen twice is there once, and a value seen in an
\* earlier group or between groups is not there, even when it is the modal
\* value this group's moves are charged with.
C15_SeenWhileOpen == [][C15_SeenStep]_vars /\ []C15_Values

\* a move of the second group has been charged a time at the feed the first
\* group set, and the second group has no feed and no spindle speed
C15_Witness ==
    /\ pc = "loop"
    /\ Len(results) = 1
    /\ results[1].Avances = {QInt(100)}
    /\ results[1].RPMs = {500}
    /\ current_group_info # <<>>
    /\ current_group_info[1].Avances = {}
    /\ current_group_info[1].RPMs = {}
    /\ QPos(current_group_info[1].Tiempo)
    /\ feed = QInt(100)

\* C16, a step: a line that leaves a group open leaves it with the tool of
\* the line's T token, or without such a token with the tool it started the
\* line with, N/A on a GROUP_BEGIN line.
C16_ToolStep ==
    (LineDone /\ current_group_info' # <<>>) =>
        current_group_info'[1].Herramienta
            = IF MatchTable[line'].tool_match # <<>>
              THEN MatchTable[line'].tool_match[1]
              ELSE HerramientaBefore(line')

\* C16, the values: after the line T="T1" the tool of the open group is T1,
\* after T="T2" it is T2, and after a GROUP_BEGIN line without a T token it
\* is N/A.
C16_Values ==
    (pc = "loop" /\ current_group_info # <<>>) =>
        /\ line = "T=\"T1\"" => current_group_info[1].Herramienta = "T1"
        /\ line = "T=\"T2\"" => current_group_info[1].Herramienta = "T2"
        /\ line = "GROUP_BEGIN(1, \"A\")"
             => current_group_info[1].Herramienta = "N/A"

\* C16: the tool of a group is N/A when no T token was seen while the group
\* was open and the value of the last such token otherwise; the tool is not
\* modal: one set in an earlier group or between groups is not carried into
\* a later group.
C16_ToolOfGroup == [][C16_ToolStep]_vars /\ []C16_Values

\* the group B, opened with T1 on its GROUP_BEGIN line, saw T2 and was
\* emitted with T2, and the group opened after it has no tool
C16_Witness ==
    /\ pc = "loop"
    /\ n = 3
    /\ Len(results) = 1
    /\ results[1].Grupo = "B"
    /\ results[1].Herramienta = "T2"
    /\ current_group_info # <<>>
    /\ current_group_info[1].Herramienta = "N/A"

\* the G code at position i of l: the digits that follow a G there, <<>>
\* when no G stands there
GWordAt(l, i) ==
    IF Ch(l, i) = "G" THEN <<SubSeq(l, i + 1, RunEnd(l, i + 1, Digits))>>
    ELSE <<>>

\* the motion codes G0, G00, G1 and G01, by their digits
MotionWords == {"0", "00", "1", "01"}

\* where on l a motion code stands
MotionCodesOf(l) ==
    {i \in 1..Len(l) : GWordAt(l, i) # <<>> /\ GWordAt(l, i)[1] \in MotionWords}

\* C17: the motion codes are exactly G0, G00 (RAPID) and G1, G01 (LINEAR): a
\* line read in an open group sets the motion mode by the first of these
\* codes it carries, and a line that carries none of them, whatever other G
\* codes it carries (G2, G17, G54, G94, G95), leaves the motion mode as it
\* was.
C17_MotionCodes ==
    [][ (LineDone /\ current_group_info' # <<>>) =>
          LET at == MotionCodesOf(line')
              word == GWordAt(line', SetMin(at))[1]
          IN  motion_mode' = IF at = {} THEN motion_mode
                             ELSE "G" \o SubSeq(word, Len(word), Len(word))
      ]_vars

\* C18, a step: a line that leaves a group open leaves per-revolution mode
\* off when it contains G94, on when it contains G95 and not G94, and as it
\* was when it contains neither; a line that leaves no group open leaves
\* the mode as it was.
C18_FeedModeStep ==
    /\ (LineDone /\ current_group_info' # <<>>) =>
         g95_active' = IF Contains(line', "G94") THEN FALSE
                       ELSE IF Contains(line', "G95") THEN TRUE
                       ELSE g95_active
    /\ (LineDone /\ current_group_info' = <<>>) => UNCHANGED g95_active

\* C18, the values: in an open group the mode is on after the line G95 and
\* off after G94, after G95 G94 and after G94 G95.
C18_Values ==
    (pc = "loop" /\ current_group_info # <<>>) =>
        /\ line = "G95" => g95_active
        /\ line \in {"G94", "G95 G94", "G94 G95"} => ~g95_active

\* C18: in an open group a line with G95 turns per-revolution mode on, one
\* with G94 turns it off, one with both leaves it off whatever their order,
\* and one with neither leaves it as it was; the mode persists from line to
\* line and across group boundaries.
C18_FeedModeDirectives == [][C18_FeedModeStep]_vars /\ []C18_Values

\* per-revolution mode, turned on in the first group, is on in the second
C18_Witness ==
    /\ pc = "loop"
    /\ n = 4
    /\ Len(results) = 1
    /\ results[1].Grupo = "A"
    /\ current_group_info # <<>>
    /\ line = "GROUP_BEGIN(1, \"A\")"
    /\ g95_active

\* C19, a step: every step of the call leaves the records emitted so far in
\* their places, with every field as it was.
C19_EmittedStep ==
    /\ Len(results') >= Len(results)
    /\ SubSeq(results', 1, Len(results)) = results

\* C19: once a record has been appended to the output, by GROUP_END or by
\* the next GROUP_BEGIN, no later line changes any of its fields; later lines
\* change the open group or append records.
C19_EmittedRecordsFrozen == [][C19_EmittedStep]_vars

\* with the group B emitted, a tool and a feed have been given to the group
\* after it, and B has the tool and the feed it was emitted with
C19_Witness ==
    /\ pc = "loop"
    /\ Len(results) = 1
    /\ results[1] = [Herramienta |-> "T1", Grupo |-> "B", Tiempo |-> QInt(6),
                      Distancia |-> QInt(10), Avances |-> {QInt(100)},
                      RPMs |-> {500}]
    /\ current_group_info # <<>>
    /\ current_group_info[1].Herramienta = "T2"
    /\ current_group_info[1].Avances = {QInt(200)}

\* a GROUP_BEGIN line with a tool, a spindle speed, a feed, a motion code and
\* a coordinate
BeginWithTokens == "GROUP_BEGIN(2, \"B\") T=\"T1\" S500 F100 G1 X10"

\* C20, a step: the tokens of a GROUP_BEGIN line go to the group the line
\* opens and to the machine; a GROUP_END line emits the open group as it was
\* and leaves the machine as it was, whatever tokens it carries; a line with
\* both markers emits the open group, if any, and then the group of its own
\* marker with time 0, distance 0, no feeds, no spindle speeds and tool N/A,
\* and leaves no group open and the machine as it was.
C20_MarkerStep ==
    LET m == MatchTable[line']
        emitted == IF current_group_info # <<>>
                   THEN Append(results, current_group_info[1]) ELSE results
    IN  /\ (LineDone /\ line' = BeginWithTokens) =>
             LET d == Distance(pos, [pos EXCEPT !.X = QInt(10)])
             IN  /\ results' = emitted
                 /\ current_group_info'
                      = <<[Herramienta |-> "T1", Grupo |-> "B",
                           Tiempo |-> RuleTime(d, QInt(100), QInt(500),
                                               g95_active),
                           Distancia |-> d, Avances |-> {QInt(100)},
                           RPMs |-> {500}]>>
                 /\ pos' = [pos EXCEPT !.X = QInt(10)]
                 /\ feed' = QInt(100) /\ rpm' = QInt(500)
                 /\ motion_mode' = "G1"
                 /\ UNCHANGED g95_active
        /\ (pc = "loop" /\ n' = n + 1 /\ m.ends /\ m.begin = <<>>) =>
             /\ pc' = "loop"
             /\ results' = emitted
             /\ current_group_info' = <<>>
             /\ UNCHANGED <<pos, feed, rpm, g95_active, motion_mode>>
        /\ (pc = "loop" /\ n' = n + 1 /\ m.ends /\ m.begin # <<>>) =>
             /\ pc' = "loop"
             /\ results'
                  = Append(emitted, Record(m.begin[1], QZero, QZero, {}, {}))
             /\ current_group_info' = <<>>
             /\ UNCHANGED <<pos, feed, rpm, g95_active, motion_mode>>

\* C20: the group markers of a line are handled before its other tokens:
\* the tokens of a GROUP_BEGIN line are applied to the new group and to the
\* machine state, those of a GROUP_END line are dropped, and a line with
\* both markers emits the open group and then the new one, empty, leaving no
\* group open.
C20_MarkersFirst == [][C20_MarkerStep]_vars

\* the group B has taken the tokens of its GROUP_BEGIN line, and a line with
\* both markers has emitted B and then the empty group C
C20_Witness ==
    /\ pc = "loop"
    /\ line = "GROUP_END GROUP_BEGIN(3, \"C\")"
    /\ current_group_info = <<>>
    /\ Len(results) = 2
    /\ results[1].Grupo = "B" /\ results[1].Herramienta = "T1"
    /\ results[1].Distancia = QInt(10)
    /\ results[2] = Record("C", QZero, QZero, {}, {})
    /\ pos.X = QInt(10) /\ feed = QInt(100) /\ rpm = QInt(500)
    /\ motion_mode = "G1"


====
